---- MODULE Spec2Model ----
(***************************************************************************)
(* Model of the physics core of the side scroller in src/src/main.rs:      *)
(* Player::update, Enemy::update and the frame loop of main.               *)
(*                                                                         *)
(* Numbers.  The program computes in f32.  The model computes in exact     *)
(* fixed point:                                                            *)
(*   time      in milliseconds            (dt = 16 is 0.016 s),            *)
(*   velocity  in 1/1000 pixel per second (VelScale units per pixel/s),    *)
(*   position  in 1/1000000 pixel         (PosScale units per pixel),      *)
(* so that  velocity += GRAVITY * dt  and  pos += velocity * dt  are exact *)
(* integer operations: (px/s^2 * ms) is 1/1000 px/s, and                   *)
(* (1/1000 px/s * ms) is 1/1000000 px.                                     *)
(*                                                                         *)
(* Rect::intersect and Rect::contains are macroquad's: intersect returns   *)
(* None when right < left or bottom < top (rectangles that only touch      *)
(* intersect in an empty rectangle), contains is inclusive on every edge.  *)
(***************************************************************************)
EXTENDS Integers, Sequences, FiniteSets

VelScale == 10 * 100
PosScale == VelScale * VelScale

\* src/src/main.rs:3-8
PLAYER_SIZE_X == 32
PLAYER_SIZE_Y == 48
PLAYER_SPEED == 200
JUMP_STRENGTH == 500
GRAVITY == 980
ENEMY_SIZE_X == 32
ENEMY_SIZE_Y == 32
ENEMY_SPEED == 50

\* the sizes in position units
PW == PLAYER_SIZE_X * PosScale
PH == PLAYER_SIZE_Y * PosScale
EW == ENEMY_SIZE_X * PosScale
EH == ENEMY_SIZE_Y * PosScale

Px(n) == n * PosScale

Vec2(x, y) == [x |-> x, y |-> y]
Rect(x, y, w, h) == [x |-> x, y |-> y, w |-> w, h |-> h]
Right(r) == r.x + r.w
Bottom(r) == r.y + r.h
Max(a, b) == IF a >= b THEN a ELSE b
Min(a, b) == IF a <= b THEN a ELSE b

\* Rect::intersect: Option<Rect>, None as some = FALSE
Intersect(a, b) ==
  LET left == Max(a.x, b.x)
      top == Max(a.y, b.y)
      right == Min(Right(a), Right(b))
      bottom == Min(Bottom(a), Bottom(b))
  IN IF right < left \/ bottom < top
     THEN [some |-> FALSE, x |-> 0, y |-> 0, w |-> 0, h |-> 0]
     ELSE [some |-> TRUE, x |-> left, y |-> top, w |-> right - left, h |-> bottom - top]

\* Rect::contains
Contains(r, pt) ==
  /\ pt.x >= r.x
  /\ pt.x <= Right(r)
  /\ pt.y <= Bottom(r)
  /\ pt.y >= r.y

(***************************************************************************)
(* Player                                                                  *)
(***************************************************************************)

\* Player::new
PlayerNew ==
  [pos |-> Vec2(Px(100), Px(100)), velocity |-> Vec2(0, 0),
   grounded |-> FALSE, facing_right |-> TRUE]

\* the keys polled in a frame: left/right held, a jump key pressed this frame
Key(l, r, j) == [left |-> l, right |-> r, jump |-> j]

\* lines 40-49: acceleration.x and facing_right from the held keys
PlayerAccelX(k) ==
  (IF k.left THEN -(PLAYER_SPEED * VelScale) ELSE 0)
  + (IF k.right THEN PLAYER_SPEED * VelScale ELSE 0)

PlayerFacing(p, k) ==
  IF k.right THEN TRUE ELSE IF k.left THEN FALSE ELSE p.facing_right

\* mutant of JumpFires: the jump not gated on grounded
JumpFiresAirborne(p, k) == k.jump

\* lines 52-53: the condition of the jump
JumpFires(p, k) == k.jump /\ p.grounded

\* lines 52-56
PlayerJump(p, k) ==
  IF JumpFires(p, k)
  THEN [p EXCEPT !.velocity.y = -(JUMP_STRENGTH * VelScale), !.grounded = FALSE]
  ELSE p

\* lines 76: the landing test of the player
PlayerLands(vel, ix) == vel.y > 0 /\ ix.y < ix.x /\ ix.y < ix.w

\* lines 74-94: the body of the platform loop.  st is the loop's state:
\* velocity, grounded, final_pos; player_rect is fixed before the loop.
PlayerResolve(st, platform, player_rect) ==
  LET ix == Intersect(player_rect, platform)
  IN IF ~ix.some THEN st
     ELSE IF PlayerLands(st.velocity, ix)
       THEN [st EXCEPT !.final_pos.y = platform.y - PH,
                       !.velocity.y = 0,
                       !.grounded = TRUE]
     ELSE IF st.velocity.y < 0 /\ ix.y > ix.x
       THEN [st EXCEPT !.final_pos.y = Bottom(platform),
                       !.velocity.y = 0]
     ELSE IF st.velocity.x > 0
       THEN [st EXCEPT !.final_pos.x = platform.x - PW,
                       !.velocity.x = 0]
     ELSE IF st.velocity.x < 0
       THEN [st EXCEPT !.final_pos.x = Right(platform),
                       !.velocity.x = 0]
     ELSE st

\* lines 73-95: the loop, platforms i..Len in list order
RECURSIVE PlayerLoop(_, _, _, _)
PlayerLoop(st, platforms, i, player_rect) ==
  IF i > Len(platforms) THEN st
  ELSE PlayerLoop(PlayerResolve(st, platforms[i], player_rect), platforms, i + 1, player_rect)

\* mutant of PlayerGroundClamp: the top of the body compared with the bottom
\* of the screen
PlayerGroundClampAtBottom(p, sh) ==
  IF p.pos.y > sh
  THEN [p EXCEPT !.pos.y = sh - PH, !.velocity.y = 0, !.grounded = TRUE]
  ELSE p

\* mutant of PlayerGroundClamp: the clamp leaves velocity.y alone
PlayerGroundClampKeepsVelocity(p, sh) ==
  IF p.pos.y > sh - PH
  THEN [p EXCEPT !.pos.y = sh - PH, !.grounded = TRUE]
  ELSE p

\* lines 99-104
PlayerGroundClamp(p, sh) ==
  IF p.pos.y > sh - PH
  THEN [p EXCEPT !.pos.y = sh - PH, !.velocity.y = 0, !.grounded = TRUE]
  ELSE p

\* lines 106-109: velocity.x *= 0.8
PlayerFriction(p) ==
  IF p.grounded THEN [p EXCEPT !.velocity.x = (p.velocity.x * 4) \div 5] ELSE p

\* mutant of PlayerVelocity: the gravity not scaled by the frame time
PlayerVelocityNoDt(p, dt, k) == Vec2(PlayerAccelX(k), p.velocity.y + GRAVITY)

\* lines 58-65: velocity after gravity and the horizontal assignment
PlayerVelocity(p, dt, k) == Vec2(PlayerAccelX(k), p.velocity.y + GRAVITY * dt)

\* line 65: new_pos
Advance(pos, vel, dt) == Vec2(pos.x + vel.x * dt, pos.y + vel.y * dt)

\* line 68
PlayerRect(pos) == Rect(pos.x, pos.y, PW, PH)

\* Player::update, lines 38-110
PlayerUpdate(p, dt, k, platforms, sh) ==
  LET j == PlayerJump(p, k)
      vel == PlayerVelocity(j, dt, k)
      new_pos == Advance(j.pos, vel, dt)
      st0 == [velocity |-> vel, grounded |-> FALSE, final_pos |-> new_pos]
      st == PlayerLoop(st0, platforms, 1, PlayerRect(new_pos))
      moved == [pos |-> st.final_pos, velocity |-> st.velocity,
                grounded |-> st.grounded, facing_right |-> PlayerFacing(p, k)]
  IN PlayerFriction(PlayerGroundClamp(moved, sh))

(***************************************************************************)
(* Enemy                                                                   *)
(***************************************************************************)

EnemyRect(pos) == Rect(pos.x, pos.y, EW, EH)

\* Enemy::new
EnemyNew(x, y) ==
  [pos |-> Vec2(x, y), velocity |-> Vec2(ENEMY_SPEED * VelScale, 0),
   moving_right |-> TRUE, rect |-> EnemyRect(Vec2(x, y))]

\* lines 145-149
PatrolVelocityX(moving_right) ==
  IF moving_right THEN ENEMY_SPEED * VelScale ELSE -(ENEMY_SPEED * VelScale)

\* lines 152-155: the probe point
CheckPos(e) ==
  Vec2(e.pos.x + (IF e.moving_right THEN EW + Px(5) ELSE -Px(5)),
       e.pos.y + EH + Px(5))

\* lines 157-163: the loop sets on_platform at the first platform for which
\* the condition holds; with no platform the body never runs
OnPlatform(check_pos, platforms, sh) ==
  \E i \in 1..Len(platforms) :
     Contains(platforms[i], check_pos) \/ check_pos.y >= sh

\* lines 165-167
EnemyTurn(e, platforms, sh) ==
  IF ~OnPlatform(CheckPos(e), platforms, sh)
  THEN [e EXCEPT !.moving_right = ~e.moving_right]
  ELSE e

\* line 181: the landing test of the enemy
EnemyLands(vel, ix) == vel.y > 0 /\ ix.y < ix.x

\* mutant of EnemyResolve: landing leaves velocity.y alone, so that a later
\* platform passes the landing test too
EnemyResolveKeepsFalling(st, platform, enemy_rect) ==
  LET ix == Intersect(enemy_rect, platform)
  IN IF ix.some /\ st.velocity.y > 0 /\ ix.y < ix.x
     THEN [st EXCEPT !.final_pos.y = platform.y - ENEMY_SIZE_Y * PosScale]
     ELSE st

\* lines 180-186: the body of the platform loop
EnemyResolve(st, platform, enemy_rect) ==
  LET ix == Intersect(enemy_rect, platform)
  IN IF ix.some /\ EnemyLands(st.velocity, ix)
     THEN [st EXCEPT !.final_pos.y = platform.y - EH, !.velocity.y = 0]
     ELSE st

\* lines 179-187
RECURSIVE EnemyLoop(_, _, _, _)
EnemyLoop(st, platforms, i, enemy_rect) ==
  IF i > Len(platforms) THEN st
  ELSE EnemyLoop(EnemyResolve(st, platforms[i], enemy_rect), platforms, i + 1, enemy_rect)

\* lines 189-193
EnemyGroundClamp(st, sh) ==
  IF st.final_pos.y > sh - EH
  THEN [st EXCEPT !.final_pos.y = sh - EH, !.velocity.y = 0]
  ELSE st

\* mutant of EnemyUpdate: the probe runs before the velocity is assigned
EnemyUpdateTurnFirst(e, dt, platforms, sh) ==
  LET turned == EnemyTurn(e, platforms, sh)
      vel == Vec2(PatrolVelocityX(turned.moving_right), e.velocity.y + GRAVITY * dt)
      new_pos == Advance(e.pos, vel, dt)
      st0 == [velocity |-> vel, final_pos |-> new_pos]
      st == EnemyGroundClamp(EnemyLoop(st0, platforms, 1, EnemyRect(new_pos)), sh)
  IN [pos |-> st.final_pos, velocity |-> st.velocity,
      moving_right |-> turned.moving_right, rect |-> EnemyRect(st.final_pos)]

\* Enemy::update, lines 143-197: the velocity is assigned from moving_right
\* before the probe may flip it
EnemyUpdate(e, dt, platforms, sh) ==
  LET vx == PatrolVelocityX(e.moving_right)
      turned == EnemyTurn(e, platforms, sh)
      vel == Vec2(vx, e.velocity.y + GRAVITY * dt)
      new_pos == Advance(e.pos, vel, dt)
      st0 == [velocity |-> vel, final_pos |-> new_pos]
      st == EnemyGroundClamp(EnemyLoop(st0, platforms, 1, EnemyRect(new_pos)), sh)
  IN [pos |-> st.final_pos, velocity |-> st.velocity,
      moving_right |-> turned.moving_right, rect |-> EnemyRect(st.final_pos)]

(***************************************************************************)
(* The scenes                                                              *)
(***************************************************************************)

\* bounds of the model: frames of a run of Spec (the program), and frames of
\* a run of SpecUpdate (the two updates on any arguments)
MaxFrames == 3
MaxUpdates == 2

\* screen_height() and screen_width(): the window, constant during a run
ScreenHeights == {Px(600), Px(480)}
ScreenWidth == Px(800)

\* get_frame_time() in milliseconds: a stalled frame, the 0.016 s frame, 1/8 s
DTs == {0, 16, 125}

\* every combination of left/right held and jump pressed
Keys == {Key(l, r, j) : l \in BOOLEAN, r \in BOOLEAN, j \in BOOLEAN}
NoKeys == Key(FALSE, FALSE, FALSE)

\* main, lines 212-228
MainPlatforms(sh) ==
  << Rect(0, sh - Px(40), ScreenWidth, Px(40)),
     Rect(Px(300), sh - Px(200), Px(200), Px(20)),
     Rect(Px(600), sh - Px(150), Px(150), Px(20)),
     Rect(Px(900), sh - Px(300), Px(200), Px(20)),
     Rect(Px(1200), sh - Px(250), Px(180), Px(20)) >>

\* main, lines 231-235
MainEnemies(sh) ==
  << EnemyNew(Px(400), sh - Px(250)),
     EnemyNew(Px(700), sh - Px(200)),
     EnemyNew(Px(1100), sh - Px(350)) >>

\* two overlapping platforms near the top of the screen, tops 5 pixels apart
TopPlatforms ==
  << Rect(Px(100), Px(20), Px(200), Px(20)),
     Rect(Px(100), Px(25), Px(200), Px(20)) >>
TopPlatformsRev == << TopPlatforms[2], TopPlatforms[1] >>

\* the platform lists a run may be given: &[Platform] of both updates
Scenes(sh) == { << >>, MainPlatforms(sh), TopPlatforms, TopPlatformsRev }

PlayerAt(x, y, vy, g) ==
  [pos |-> Vec2(x, y), velocity |-> Vec2(0, vy), grounded |-> g, facing_right |-> TRUE]

\* start states of the player: as constructed; airborne just above, standing
\* on, and below the bottom of the screen; and, for every platform, resting on
\* its top and rising into it from below
PlayerStarts(platforms, sh) ==
  { PlayerNew,
    PlayerAt(Px(100), sh - PH - Px(1), 0, FALSE),
    PlayerAt(Px(100), sh - PH, 0, TRUE),
    PlayerAt(Px(100), sh + Px(10), 0, FALSE) }
  \cup { PlayerAt(platforms[i].x + Px(40), platforms[i].y - PH, 0, TRUE)
           : i \in 1..Len(platforms) }
  \cup { PlayerAt(platforms[i].x + Px(40), Bottom(platforms[i]) + Px(1),
                  -(300 * VelScale), FALSE)
           : i \in 1..Len(platforms) }

EnemyAt(x, y, mr) ==
  [pos |-> Vec2(x, y), velocity |-> Vec2(PatrolVelocityX(mr), 0),
   moving_right |-> mr, rect |-> EnemyRect(Vec2(x, y))]

\* start states of an enemy: main's first enemy; standing on and below the
\* bottom of the screen; and, for every platform, standing on its top in the
\* middle, at its right end walking right and at its left end walking left
EnemyStarts(platforms, sh) ==
  { EnemyNew(Px(400), sh - Px(250)),
    EnemyAt(Px(100), sh - EH, TRUE),
    EnemyAt(Px(100), sh - EH, FALSE),
    EnemyAt(Px(100), sh + Px(10), TRUE) }
  \cup { EnemyAt(platforms[i].x + Px(40), platforms[i].y - EH, TRUE)
           : i \in 1..Len(platforms) }
  \cup { EnemyAt(Right(platforms[i]) - EW, platforms[i].y - EH, TRUE)
           : i \in 1..Len(platforms) }
  \cup { EnemyAt(platforms[i].x, platforms[i].y - EH, FALSE)
           : i \in 1..Len(platforms) }

(***************************************************************************)
(* The state machine                                                       *)
(***************************************************************************)

VARIABLES
  sh,          \* screen_height()
  platforms,   \* main's platforms
  player,      \* main's player
  enemies,     \* main's enemies
  pc,          \* position in the loop body: "player" (line 256) or "enemy" (line 259)
  frame,       \* number of completed iterations of the loop
  dt,          \* line 242: the frame time of the current iteration
  keys,        \* the keys polled by the last Player::update
  jumped,      \* whether the last Player::update executed lines 54-55
  prePlayer,   \* the player before the last Player::update
  preEnemies   \* the enemies before the last pass of lines 259-261

vars == << sh, platforms, player, enemies, pc, frame, dt, keys, jumped, prePlayer, preEnemies >>

InitLoop ==
  /\ pc = "player"
  /\ frame = 0
  /\ jumped = FALSE
  /\ prePlayer = player
  /\ preEnemies = enemies

\* main, lines 208-237: the state main builds before its loop; no frame time
\* has been read and no key polled yet
Init ==
  /\ sh \in ScreenHeights
  /\ platforms = MainPlatforms(sh)
  /\ player = PlayerNew
  /\ enemies = MainEnemies(sh)
  /\ dt = 0
  /\ keys = NoKeys
  /\ InitLoop

\* the arguments Player::update(&mut self, dt, platforms) and
\* Enemy::update(&mut self, dt, platforms) can be called with, beyond those
\* main passes: any platform list of Scenes, and either the player or one
\* enemy in any of its start states; main's own state is among them
InitUpdate ==
  \/ Init
  \/ /\ sh \in ScreenHeights
     /\ platforms \in Scenes(sh)
     /\ \/ /\ player \in PlayerStarts(platforms, sh)
           /\ enemies = << EnemyNew(Px(400), sh - Px(250)) >>
        \/ /\ player = PlayerNew
           /\ enemies \in { << e >> : e \in EnemyStarts(platforms, sh) }
     /\ dt = 0
     /\ keys = NoKeys
     /\ InitLoop

\* lines 242-256: the frame time is read and the player updated
PlayerStep(d, k, bound) ==
  /\ pc = "player"
  /\ frame < bound
  /\ dt' = d
  /\ keys' = k
  /\ jumped' = JumpFires(player, k)
  /\ prePlayer' = player
  /\ player' = PlayerUpdate(player, d, k, platforms, sh)
  /\ pc' = "enemy"
  /\ UNCHANGED << sh, platforms, enemies, frame, preEnemies >>

\* lines 259-261: every enemy is updated with the same frame time
EnemiesStep ==
  /\ pc = "enemy"
  /\ preEnemies' = enemies
  /\ enemies' = [i \in 1..Len(enemies) |-> EnemyUpdate(enemies[i], dt, platforms, sh)]
  /\ pc' = "player"
  /\ frame' = frame + 1
  /\ UNCHANGED << sh, platforms, player, dt, keys, jumped, prePlayer >>

PlayerFrame(bound) == \E d \in DTs, k \in Keys : PlayerStep(d, k, bound)

Next == PlayerFrame(MaxFrames) \/ EnemiesStep
NextUpdate == PlayerFrame(MaxUpdates) \/ EnemiesStep

\* the program: main's construction, then main's loop
Spec == Init /\ [][Next]_vars
\* the two updates, in the loop's order, from any arguments
SpecUpdate == InitUpdate /\ [][NextUpdate]_vars

\* the last step was Player::update / the pass over the enemies
PlayerUpdated == pc = "enemy"
EnemiesUpdated == pc = "player" /\ frame > 0

TypeOK ==
  /\ pc \in {"player", "enemy"}
  /\ frame \in 0..(MaxFrames + MaxUpdates)
  /\ dt \in DTs
  /\ keys \in Keys
  /\ player.grounded \in BOOLEAN
  /\ Len(enemies) = Len(preEnemies)

(***************************************************************************)
(* What the last update saw                                                *)
(***************************************************************************)

\* lines 58-68 of the last Player::update: the velocity after the jump, the
\* gravity and the horizontal assignment, and the candidate rectangle
PlayerCandVel == PlayerVelocity(PlayerJump(prePlayer, keys), dt, keys)
PlayerCand == PlayerRect(Advance(prePlayer.pos, PlayerCandVel, dt))

\* lines 145-174 of the last Enemy::update of enemy i
EnemyCandVel(i) ==
  Vec2(PatrolVelocityX(preEnemies[i].moving_right), preEnemies[i].velocity.y + GRAVITY * dt)
EnemyCand(i) == EnemyRect(Advance(preEnemies[i].pos, EnemyCandVel(i), dt))

Enemies == 1..Len(enemies)
Platforms == 1..Len(platforms)

\* the platforms the candidate rectangle intersects
PlayerHits == { j \in Platforms : Intersect(PlayerCand, platforms[j]).some }
EnemyHits(i) == { j \in Platforms : Intersect(EnemyCand(i), platforms[j]).some }

\* enemy i reversed in the last update
Flipped(i) == enemies[i].moving_right # preEnemies[i].moving_right

(***************************************************************************)
(* C1                                                                      *)
(***************************************************************************)

\* C1: ground clamp.  After every Player::update the player satisfies
\* pos.y + 48 <= screen height, and after every Enemy::update every enemy
\* satisfies pos.y + 32 <= screen height, whatever the start state, the
\* platform list and dt >= 0.
C1_GroundClamp ==
  /\ (PlayerUpdated \/ frame > 0) => player.pos.y + PH <= sh
  /\ frame > 0 => \A i \in Enemies : enemies[i].pos.y + EH <= sh

\* a player that started below the bottom of the screen, with no platform,
\* has been clamped twice, and the enemy has been updated
C1_Witness ==
  /\ PlayerUpdated /\ frame = 1 /\ dt > 0
  /\ platforms = << >>
  /\ prePlayer.pos.y + PH = sh
  /\ player.pos.y + PH = sh
  /\ enemies[1].pos.y + EH <= sh

(***************************************************************************)
(* C10                                                                     *)
(***************************************************************************)

\* C10: grounded implies supported and at rest.  In every state after a
\* Player::update, grounded implies velocity.y = 0 and the bottom edge
\* pos.y + 48 is the top of some platform of the list or the screen height.
C10_GroundedSupported ==
  (PlayerUpdated \/ frame > 0) /\ player.grounded =>
     /\ player.velocity.y = 0
     /\ \/ player.pos.y + PH = sh
        \/ \E j \in Platforms : player.pos.y + PH = platforms[j].y

\* the player has landed on a platform (not on the bottom of the screen)
C10_Witness ==
  /\ PlayerUpdated /\ dt > 0 /\ player.grounded
  /\ player.pos.y + PH # sh
  /\ player.pos.y # prePlayer.pos.y

(***************************************************************************)
(* C4                                                                      *)
(***************************************************************************)

\* C4: jump gate.  A Player::update that starts with grounded = FALSE gives
\* the same player whether or not a jump key is pressed, its velocity.y being
\* the old one plus the gravity or the 0 of a collision; and lines 54-55 run
\* only in an update that starts grounded.
C4_JumpGate ==
  /\ PlayerUpdated /\ ~prePlayer.grounded =>
       /\ player = PlayerUpdate(prePlayer, dt, [keys EXCEPT !.jump = ~keys.jump], platforms, sh)
       /\ player.velocity.y \in {prePlayer.velocity.y + GRAVITY * dt, 0}
  /\ jumped => prePlayer.grounded

\* a jump key was pressed in an update that started airborne
C4_Witness ==
  /\ PlayerUpdated /\ ~prePlayer.grounded /\ keys.jump /\ dt > 0
  /\ player.velocity.y = prePlayer.velocity.y + GRAVITY * dt

(***************************************************************************)
(* C9                                                                      *)
(***************************************************************************)

\* the free fall of the player in the last update: velocity.y grew by
\* GRAVITY * dt, pos.y advanced by the new velocity times dt, still airborne
PlayerFell ==
  /\ player.velocity.y = prePlayer.velocity.y + GRAVITY * dt
  /\ player.velocity.y > prePlayer.velocity.y
  /\ player.pos.y = prePlayer.pos.y + player.velocity.y * dt
  /\ ~player.grounded

EnemyFell(i) ==
  /\ enemies[i].velocity.y = preEnemies[i].velocity.y + GRAVITY * dt
  /\ enemies[i].velocity.y > preEnemies[i].velocity.y
  /\ enemies[i].pos.y = preEnemies[i].pos.y + enemies[i].velocity.y * dt

\* C9 as claimed: in any frame with dt > 0 that starts airborne and whose
\* candidate rectangle intersects no platform, velocity.y grows by
\* GRAVITY * dt, pos.y advances by the new velocity times dt, and the player
\* stays airborne; the same for every enemy.
C9_FreeFall_Claimed ==
  /\ PlayerUpdated /\ dt > 0 /\ ~prePlayer.grounded /\ PlayerHits = {} => PlayerFell
  /\ EnemiesUpdated /\ dt > 0 =>
       \A i \in Enemies : EnemyHits(i) = {} => EnemyFell(i)

\* C9 as amended: the same, for a candidate rectangle that also stays above
\* the bottom of the screen (candidate pos.y <= screen height - body height),
\* so that the clamp of lines 100-104 and 190-193 does not act.
C9_FreeFall ==
  /\ PlayerUpdated /\ dt > 0 /\ ~prePlayer.grounded /\ PlayerHits = {}
       /\ PlayerCand.y <= sh - PH => PlayerFell
  /\ EnemiesUpdated /\ dt > 0 =>
       \A i \in Enemies : EnemyHits(i) = {} /\ EnemyCand(i).y <= sh - EH => EnemyFell(i)

\* the scenario of the claim: Player::new at (100, 100), dt = 0.016, gives
\* velocity.y = 15.68 and pos.y = 100.25088
C9_Witness ==
  /\ PlayerUpdated /\ dt = 16 /\ prePlayer = PlayerNew /\ PlayerHits = {}
  /\ player.velocity.y = 15680
  /\ player.pos.y = 100250880
  /\ ~player.grounded

(***************************************************************************)
(* C7                                                                      *)
(***************************************************************************)

\* C7 as claimed: in a frame in which Enemy::update flips moving_right, the
\* horizontal velocity and the displacement of that frame follow the new
\* direction.
C7_SameFrame_Claimed ==
  EnemiesUpdated =>
    \A i \in Enemies : Flipped(i) =>
      LET v == IF enemies[i].moving_right THEN ENEMY_SPEED * VelScale
               ELSE -(ENEMY_SPEED * VelScale)
      IN /\ enemies[i].velocity.x = v
         /\ enemies[i].pos.x = preEnemies[i].pos.x + v * dt

\* C7 as amended: in a frame in which Enemy::update flips moving_right, the
\* horizontal velocity and the displacement of that frame still follow the
\* direction the frame started with; the new direction is in moving_right
\* for the next frame's velocity assignment.
C7_NextFrame ==
  EnemiesUpdated =>
    \A i \in Enemies : Flipped(i) =>
      LET v == IF preEnemies[i].moving_right THEN ENEMY_SPEED * VelScale
               ELSE -(ENEMY_SPEED * VelScale)
      IN /\ enemies[i].velocity.x = v
         /\ enemies[i].pos.x = preEnemies[i].pos.x + v * dt

\* an enemy standing at the right end of a platform walked on to the right
\* in the frame in which it turned left
C7_Witness ==
  /\ EnemiesUpdated /\ dt > 0
  /\ \E i \in Enemies :
       /\ Flipped(i) /\ preEnemies[i].moving_right
       /\ \E j \in Platforms : preEnemies[i].pos.y + EH = platforms[j].y
                                /\ preEnemies[i].pos.x + EW = Right(platforms[j])
       /\ enemies[i].pos.x > preEnemies[i].pos.x

(***************************************************************************)
(* C8                                                                      *)
(***************************************************************************)

\* the platforms that pass the landing test of the code on their own, for the
\* candidate rectangle and the falling velocity of the last update
PlayerLanders ==
  { j \in PlayerHits : PlayerLands(PlayerCandVel, Intersect(PlayerCand, platforms[j])) }
EnemyLanders(i) ==
  { j \in EnemyHits(i) : EnemyLands(EnemyCandVel(i), Intersect(EnemyCand(i), platforms[j])) }

\* those of them whose overlap is also flatter than wide (height < width)
Flat(ix) == ix.h < ix.w
PlayerFlatLanders == { j \in PlayerLanders : Flat(Intersect(PlayerCand, platforms[j])) }
EnemyFlatLanders(i) == { j \in EnemyLanders(i) : Flat(Intersect(EnemyCand(i), platforms[j])) }

\* two or more platforms, tops at different heights
Ambiguous(S) == \E a \in S, b \in S : platforms[a].y # platforms[b].y
First(S) == CHOOSE a \in S : \A b \in S : a <= b
Last(S) == CHOOSE a \in S : \A b \in S : a >= b

\* C8 as claimed: when the candidate rectangle of a falling body intersects
\* two or more platforms that each satisfy the landing condition on their own
\* (tops at different heights), the final pos.y is platformTop - bodyHeight of
\* the LAST such platform in list order, for the player and for the enemy.
C8_LastWins_Claimed ==
  /\ PlayerUpdated /\ Ambiguous(PlayerFlatLanders) =>
       player.pos.y = platforms[Last(PlayerFlatLanders)].y - PH
  /\ EnemiesUpdated =>
       \A i \in Enemies : Ambiguous(EnemyFlatLanders(i)) =>
          enemies[i].pos.y = platforms[Last(EnemyFlatLanders(i))].y - EH

\* C8 as amended: when the candidate rectangle of a falling body intersects
\* two or more platforms that each pass the landing test of the code on their
\* own, the final pos.y is platformTop - bodyHeight of the FIRST such platform
\* in list order (landing zeroes velocity.y, so no later platform passes the
\* test), or the screen-bottom clamp's value if that is higher up.
C8_FirstWins ==
  /\ PlayerUpdated /\ Ambiguous(PlayerLanders) =>
       player.pos.y = Min(platforms[First(PlayerLanders)].y - PH, sh - PH)
  /\ EnemiesUpdated =>
       \A i \in Enemies : Ambiguous(EnemyLanders(i)) =>
          enemies[i].pos.y = Min(platforms[First(EnemyLanders(i))].y - EH, sh - EH)

\* the player fell into two platforms that both pass the landing test, the
\* second of the list being the higher one, and landed on the first
C8_Witness ==
  /\ PlayerUpdated /\ Ambiguous(PlayerLanders)
  /\ platforms[Last(PlayerLanders)].y < platforms[First(PlayerLanders)].y
  /\ player.pos.y = platforms[First(PlayerLanders)].y - PH

\* an enemy did the same
C8_WitnessEnemy ==
  /\ EnemiesUpdated
  /\ \E i \in Enemies :
       /\ Ambiguous(EnemyLanders(i))
       /\ enemies[i].pos.y = platforms[First(EnemyLanders(i))].y - EH

(***************************************************************************)
(* C2, C3                                                                  *)
(***************************************************************************)

\* p rests on the top of platform j: bottom edge on the top, horizontally
\* inside its extent, at rest and grounded
RestsOn(p, j) ==
  /\ p.pos.y + PH = platforms[j].y
  /\ p.pos.x >= platforms[j].x
  /\ p.pos.x + PW <= Right(platforms[j])
  /\ p.velocity = Vec2(0, 0)
  /\ p.grounded

\* C2: landing idempotence.  A player that starts a frame resting on the top
\* of a platform, with no key held or pressed and a small dt > 0, has after
\* the update the same pos.y, velocity.y = 0 and grounded = TRUE (and so
\* rests there again, for any number of further such updates).  Stated for a
\* platform that is the only one the candidate rectangle intersects.
C2_LandingIdempotence ==
  PlayerUpdated /\ dt > 0 /\ dt <= 16 /\ keys = NoKeys
    /\ (\E j \in Platforms : RestsOn(prePlayer, j) /\ PlayerHits = {j})
    => /\ player.pos.y = prePlayer.pos.y
       /\ player.velocity.y = 0
       /\ player.grounded

\* C3: player landing classification.  Whenever the velocity after gravity is
\* downward and the candidate rectangle intersects a platform in an overlap
\* whose height is smaller than its width, no earlier platform of the list
\* having been resolved in this frame, the update snaps pos.y to
\* platform.y - 48, zeroes velocity.y and sets grounded (stated for a platform
\* that is the only one intersected and whose top is on the screen, so that
\* nothing after it in the update acts on pos.y).
C3_LandingClassification ==
  PlayerUpdated =>
    \A j \in Platforms :
      /\ PlayerCandVel.y > 0
      /\ PlayerHits = {j}
      /\ Flat(Intersect(PlayerCand, platforms[j]))
      /\ platforms[j].y <= sh
      => /\ player.pos.y = platforms[j].y - PH
         /\ player.velocity.y = 0
         /\ player.grounded

(***************************************************************************)
(* C5                                                                      *)
(***************************************************************************)

\* C5: enemy reversal condition.  For every platform list, the empty one
\* included, one Enemy::update toggles moving_right if and only if no platform
\* rectangle contains the probe point and the probe's y is above the bottom of
\* the screen.
C5_ReversalCondition ==
  EnemiesUpdated =>
    \A i \in Enemies :
      Flipped(i) <=>
        /\ ~\E j \in Platforms : Contains(platforms[j], CheckPos(preEnemies[i]))
        /\ CheckPos(preEnemies[i]).y < sh

(***************************************************************************)
(* C6                                                                      *)
(***************************************************************************)

\* C6: enemy patrol scenario.  In the scene built by main (Spec), the first enemy
\* stays supported by the platform (300, screenHeight-200, 200, 20): its
\* bottom edge never goes below the platform's top, it stays within the
\* platform's horizontal extent, and while its probe point has not passed the
\* platform's right edge it keeps moving_right = TRUE and advances x by
\* 50 * dt per frame.
C6_PatrolScenario ==
  EnemiesUpdated =>
    LET e == enemies[1]
        pre == preEnemies[1]
        plat == platforms[2]
    IN /\ e.pos.y + EH <= plat.y
       /\ e.pos.x >= plat.x /\ e.pos.x + EW <= Right(plat)
       /\ pre.moving_right /\ CheckPos(pre).x <= Right(plat) =>
            /\ e.moving_right
            /\ e.pos.x = pre.pos.x + ENEMY_SPEED * VelScale * dt

\* the part of C6 that does not depend on the direction: the enemy's bottom
\* edge never goes below the platform's top
C6_Supported ==
  EnemiesUpdated => enemies[1].pos.y + EH <= platforms[2].y

====
